---- MODULE Spec2Model ----
(***************************************************************************)
(* Model of calendar_generator.py: the holiday resolver, the 13-month      *)
(* arithmetic, the day grids, the colorizer, the page composer and the     *)
(* batch run that writes one SVG page per month.                           *)
(*                                                                         *)
(* Strings that the program cuts, parses or builds (date strings, holiday  *)
(* names, file names) are sequences of Unicode code points.  Dates are     *)
(* triples <<year, month, day>>.                                           *)
(***************************************************************************)
EXTENDS Integers, Sequences, FiniteSets, TLC

VARIABLES
    pc,            \* position of the run / of the caller
    year,          \* self.year
    holiday_dict,  \* self.holiday_dict : <<y, m, d>> -> name
    web,           \* what the holiday source answers (status, parseable, body)
    fetches,       \* number of HTTP requests made so far
    dir_exists,    \* os.path.exists(output_dir)
    dir_created,   \* os.makedirs(output_dir) was executed
    files,         \* the output directory: file name -> content written
    pages,         \* number of pages generated so far
    idx,           \* position of the for loop of save_calendar_svgs in range(1, 13)
    call,          \* the function called last and its arguments
    ret            \* the value it returned

vars == <<pc, year, holiday_dict, web, fetches, dir_exists, dir_created, files,
          pages, idx, call, ret>>

-----------------------------------------------------------------------------
(* Bounds of the model *)

MinYear == 2000
MaxYear == 2028
MaxPayload == 2

Years == MinYear..MaxYear

-----------------------------------------------------------------------------
(* Characters and text *)

Dash == 45
Zero == 48

\* the code points of the digit zero of every Unicode decimal-digit block
\* (category Nd); the ten digits of a block follow each other
DigitZeros ==
    { 48, 1632, 1776, 1984, 2406, 2534, 2662, 2790, 2918, 3046, 3174, 3302,
      3430, 3558, 3664, 3792, 3872, 4160, 4240, 6112, 6160, 6470, 6608, 6784,
      6800, 6992, 7088, 7232, 7248, 42528, 43216, 43264, 43472, 43504, 43600,
      44016, 65296, 66720, 68912, 69734, 69872, 69942, 70096, 70384, 70736,
      70864, 71248, 71360, 71472, 71904, 72016, 72784, 73040, 73120, 92768,
      92864, 93008, 120782, 120792, 120802, 120812, 120822, 123200, 123632,
      125264, 130032 }

\* what int() takes as a decimal digit, and its value
IsDigit(c) == \E z \in DigitZeros : c >= z /\ c <= z + 9
DigitValue(c) == c - (CHOOSE z \in DigitZeros : c >= z /\ c <= z + 9)

\* what int() strips from both ends
IsSpace(c) ==
    c \in { 9, 10, 11, 12, 13, 32, 133, 160, 5760, 8232, 8233, 8239, 8287, 12288 }
           \cup (8192..8202)

\* str(n) for n >= 0
RECURSIVE DecDigits(_)
DecDigits(n) == IF n < 10 THEN <<Zero + n>>
                ELSE Append(DecDigits(n \div 10), Zero + (n % 10))

\* f"{n:02d}" for n >= 0: at least two digits, padded with zeros
Fmt02d(n) == LET s == DecDigits(n) IN IF Len(s) < 2 THEN <<Zero>> \o s ELSE s

\* the holiday source writes its keys as YYYY-MM-DD
IsoDate(y, m, d) == DecDigits(y) \o <<Dash>> \o Fmt02d(m) \o <<Dash>> \o Fmt02d(d)

\* s.split("-")
RECURSIVE SplitDash(_)
SplitDash(s) ==
    IF \A i \in 1..Len(s) : s[i] # Dash THEN <<s>>
    ELSE LET i == CHOOSE j \in 1..Len(s) :
                      s[j] = Dash /\ \A k \in 1..(j - 1) : s[k] # Dash
         IN <<SubSeq(s, 1, i - 1)>> \o SplitDash(SubSeq(s, i + 1, Len(s)))

\* the value of digits with "_" between them, the first of them not a zero
RECURSIVE SignificantValue(_)
SignificantValue(s) ==
    IF Len(s) = 0 THEN 0
    ELSE LET c == s[Len(s)]
             front == SubSeq(s, 1, Len(s) - 1)
         IN IF c = 95 THEN SignificantValue(front)
            ELSE SignificantValue(front) * 10 + DigitValue(c)

\* the value of digits with "_" between them: leading zeros add nothing
DigitsValue(s) ==
    LET sig == { i \in 1..Len(s) : s[i] # 95 /\ DigitValue(s[i]) # 0 }
    IN IF sig = {} THEN 0
       ELSE SignificantValue(SubSeq(s, CHOOSE i \in sig : \A j \in sig : i <= j, Len(s)))

\* sys.get_int_max_str_digits(): the most digits int() converts
MaxStrDigits == 4300

\* int(s): white space around, an optional sign, then decimal digits with
\* single "_" between digits, no more than MaxStrDigits of them; err stands
\* for ValueError
ParseInt(s) ==
    LET solid == { i \in 1..Len(s) : ~IsSpace(s[i]) }
    IN IF solid = {} THEN [err |-> TRUE, val |-> 0]
       ELSE LET a == CHOOSE i \in solid : \A j \in solid : i <= j
                b == CHOOSE i \in solid : \A j \in solid : j <= i
                signed == s[a] \in {43, 45}
                body == SubSeq(s, IF signed THEN a + 1 ELSE a, b)
                n == Len(body)
            IN IF \/ n = 0
                  \/ \E i \in 1..n : ~IsDigit(body[i]) /\ body[i] # 95
                  \/ body[1] = 95
                  \/ body[n] = 95
                  \/ \E i \in 1..(n - 1) : body[i] = 95 /\ body[i + 1] = 95
                  \/ Cardinality({ i \in 1..n : body[i] # 95 }) > MaxStrDigits
               THEN [err |-> TRUE, val |-> 0]
               ELSE [err |-> FALSE,
                     val |-> IF s[a] = 45 THEN 0 - DigitsValue(body)
                             ELSE DigitsValue(body)]

\* sub in s
Contains(sub, s) ==
    \E i \in 0..(Len(s) - Len(sub)) : SubSeq(s, i + 1, i + Len(sub)) = sub

Furikae == <<25391, 26367, 20241, 26085>>
Ganjitsu == <<20803, 26085>>
SeijinNoHi == <<25104, 20154, 12398, 26085>>

-----------------------------------------------------------------------------
(* datetime.date and calendar.Calendar, as the program uses them *)

_is_leap(y) == y % 4 = 0 /\ (y % 100 # 0 \/ y % 400 = 0)

_days_in_month(y, m) ==
    IF m = 2 THEN (IF _is_leap(y) THEN 29 ELSE 28)
    ELSE IF m \in {4, 6, 9, 11} THEN 30 ELSE 31

_days_before_year(y) ==
    LET p == y - 1 IN p * 365 + p \div 4 - p \div 100 + p \div 400

RECURSIVE _days_before_month(_, _)
_days_before_month(y, m) ==
    IF m = 1 THEN 0 ELSE _days_before_month(y, m - 1) + _days_in_month(y, m - 1)

\* date.toordinal()
toordinal(dt) ==
    _days_before_year(dt[1]) + _days_before_month(dt[1], dt[2]) + dt[3]

\* date.fromordinal(n)
fromordinal(n) ==
    LET y == CHOOSE c \in (n \div 366)..(n \div 365 + 1) :
                 _days_before_year(c) < n /\ n <= _days_before_year(c + 1)
        r == n - _days_before_year(y)
        m == CHOOSE c \in 1..12 :
                 _days_before_month(y, c) < r
                 /\ r <= _days_before_month(y, c) + _days_in_month(y, c)
    IN <<y, m, r - _days_before_month(y, m)>>

\* date.weekday(): Monday = 0 ... Sunday = 6
weekday(dt) == (toordinal(dt) + 6) % 7

\* date + timedelta(days = n)
date_plus(dt, n) == fromordinal(toordinal(dt) + n)

\* (a - b).days
date_diff(a, b) == toordinal(a) - toordinal(b)

\* calendar.Calendar(firstweekday).itermonthdates(y, m): whole weeks, so it
\* starts in the previous month and ends in the next one
itermonthdates(firstweekday, y, m) ==
    LET day1 == weekday(<<y, m, 1>>)
        ndays == _days_in_month(y, m)
        days_before == (day1 - firstweekday) % 7
        days_after == (firstweekday - day1 - ndays) % 7
        py == IF m = 1 THEN y - 1 ELSE y
        pm == IF m = 1 THEN 12 ELSE m - 1
        ny == IF m = 12 THEN y + 1 ELSE y
        nm == IF m = 12 THEN 1 ELSE m + 1
        end == _days_in_month(py, pm) + 1
    IN [i \in 1..days_before |-> <<py, pm, end - days_before + i - 1>>]
       \o [i \in 1..ndays |-> <<y, m, i>>]
       \o [i \in 1..days_after |-> <<ny, nm, i>>]

-----------------------------------------------------------------------------
(* Module-level functions *)

\* the "% 7" of the offset left out: a 1st that is a Monday counts as no Monday
find_second_monday_no_mod(y, m) ==
    LET d == <<y, m, 1>>
        offset == 7 - weekday(d)
        first_monday == date_plus(d, offset)
        second_monday == date_plus(first_monday, 7)
    IN second_monday[3]

find_second_monday(y, m) ==
    LET d == <<y, m, 1>>
        offset == (7 - weekday(d)) % 7
        first_monday == date_plus(d, offset)
        second_monday == date_plus(first_monday, 7)
    IN second_monday[3]

\* requests.get(url); raise_for_status(); resp.json(), then the two steps of
\* the function.  The result is [err, dict]: err when an exception leaves the
\* function (HTTPError, JSONDecodeError, ValueError).
put(d, key, v) == [k \in DOMAIN d \cup {key} |-> IF k = key THEN v ELSE d[k]]

EmptyDict == [k \in {} |-> <<>>]

RECURSIVE take_base_year(_, _, _)
take_base_year(items, base_year, d) ==
    IF Len(items) = 0 THEN [err |-> FALSE, dict |-> d]
    ELSE LET date_str == items[1][1]
             holiday_name == items[1][2]
             parts == SplitDash(date_str)
         IN IF Len(parts) # 3 THEN [err |-> TRUE, dict |-> EmptyDict]
            ELSE LET y == ParseInt(parts[1])
                     m == ParseInt(parts[2])
                     dd == ParseInt(parts[3])
                 IN IF y.err \/ m.err \/ dd.err
                    THEN [err |-> TRUE, dict |-> EmptyDict]
                    ELSE IF y.val = base_year
                    THEN take_base_year(Tail(items), base_year,
                             put(d, <<y.val, m.val, dd.val>>,
                                 IF Contains(Furikae, holiday_name)
                                 THEN Furikae ELSE holiday_name))
                    ELSE take_base_year(Tail(items), base_year, d)

\* Coming of Age Day taken from January of base_year, not of the next year
get_japanese_holidays_same_year(base_year) ==
    IF web.status >= 400 /\ web.status < 600 THEN [err |-> TRUE, dict |-> EmptyDict]
    ELSE IF ~web.parseable THEN [err |-> TRUE, dict |-> EmptyDict]
    ELSE LET r == take_base_year(web.body, base_year, EmptyDict)
         IN IF r.err THEN r
            ELSE LET d1 == put(r.dict, <<base_year, 13, 1>>, Ganjitsu)
                     second_mon_day == find_second_monday(base_year, 1)
                 IN [err |-> FALSE,
                     dict |-> put(d1, <<base_year, 13, second_mon_day>>, SeijinNoHi)]

get_japanese_holidays_from_web(base_year) ==
    IF web.status >= 400 /\ web.status < 600 THEN [err |-> TRUE, dict |-> EmptyDict]
    ELSE IF ~web.parseable THEN [err |-> TRUE, dict |-> EmptyDict]
    ELSE LET r == take_base_year(web.body, base_year, EmptyDict)
         IN IF r.err THEN r
            ELSE LET next_year == base_year + 1
                     d1 == put(r.dict, <<base_year, 13, 1>>, Ganjitsu)
                     second_mon_day == find_second_monday(next_year, 1)
                 IN [err |-> FALSE,
                     dict |-> put(d1, <<base_year, 13, second_mon_day>>, SeijinNoHi)]

-----------------------------------------------------------------------------
(* CalendarSVGGenerator: layout constants *)

MAIN_MONTH_X == 45
MAIN_MONTH_Y == 290
MAIN_DAYOFWEEK_X == 84
MAIN_DAYOFWEEK_Y == 270
MAIN_DAY_X == 84
MAIN_DAY_Y == 295
MAIN_COL_INTERVAL_X == 28
MAIN_ROW_INTERVAL_Y == 19
PREV_MONTH_X == 45
PREV_MONTH_Y == 305
PREV_DAY_X == 24
PREV_DAY_Y == 312
PREV_COL_INTERVAL_X == 7
PREV_ROW_INTERVAL_Y == 6
NEXT_MONTH_X == 45
NEXT_MONTH_Y == 350
NEXT_DAY_X == 24
NEXT_DAY_Y == 357
NEXT_COL_INTERVAL_X == 7
NEXT_ROW_INTERVAL_Y == 6

DAY_OF_WEEK_LABELS == <<"SUN", "MON", "TUE", "WED", "THU", "FRI", "SAT">>

-----------------------------------------------------------------------------
(* CalendarSVGGenerator: methods *)

_get_day_of_week_color(wday_idx) ==
    IF wday_idx = 0 THEN "orangered"
    ELSE IF wday_idx = 6 THEN "royalblue"
    ELSE "black"

\* the holiday looked up under the real month, not the logical one
_get_day_color_real_key(wday_idx, base_ymd, actual_year, actual_month, mini) ==
    IF <<actual_year, actual_month, base_ymd[3]>> \in DOMAIN holiday_dict
    THEN "orangered"
    ELSE IF wday_idx = 0 THEN "orangered"
    ELSE IF wday_idx = 6 THEN "royalblue"
    ELSE IF mini THEN "darkslategray" ELSE "black"

_get_day_color(wday_idx, base_ymd, actual_year, actual_month, mini) ==
    IF base_ymd \in DOMAIN holiday_dict THEN "orangered"
    ELSE IF wday_idx = 0 THEN "orangered"
    ELSE IF wday_idx = 6 THEN "royalblue"
    ELSE IF mini THEN "darkslategray" ELSE "black"

\* month 13 resolved without the step into the next year
_interpret_month13_same_year(base_year, base_month) ==
    IF base_month = 13 THEN <<base_year, 1>> ELSE <<base_year, base_month>>

_interpret_month13(base_year, base_month) ==
    IF base_month = 13 THEN <<base_year + 1, 1>> ELSE <<base_year, base_month>>

_get_prev_month(y, month) ==
    IF month = 13 THEN <<y, 12>>
    ELSE IF month = 1 THEN <<y - 1, 12>>
    ELSE <<y, month - 1>>

\* the case of month 13 left out
_get_next_month_no_13(y, month) ==
    IF month = 12 THEN <<y, 13>> ELSE <<y, month + 1>>

_get_next_month(y, month) ==
    IF month = 12 THEN <<y, 13>>
    ELSE IF month = 13 THEN <<y + 1, 2>>
    ELSE <<y, month + 1>>

\* the conversion left out: Monday stays 0
convert_sun_start_monday_first(wk) == wk

convert_sun_start(wk) == (wk + 1) % 7

\* the weekday of the 1st left out of the row
grid_row_no_first_wday(offset_days, first_wday) == offset_days \div 7

\* row = (offset_days + first_wday) // 7
grid_row(offset_days, first_wday) == (offset_days + first_wday) \div 7

\* the filter on d.month left out
month_days_unfiltered(actual_year, actual_month) ==
    itermonthdates(6, actual_year, actual_month)

\* [d for d in c.itermonthdates(y, m) if d.month == m]
month_days(actual_year, actual_month) ==
    SelectSeq(itermonthdates(6, actual_year, actual_month),
              LAMBDA d : d[2] = actual_month)

\* one day of a grid: the loop's locals and what the <text> element carries
day_cell(d, base_year, base_month, actual_year, actual_month, day_x, day_y, col_interval, row_interval, mini) ==
    LET first_wday == convert_sun_start(weekday(<<actual_year, actual_month, 1>>))
        dday == d[3]
        wday == convert_sun_start(weekday(d))
        offset_days == date_diff(d, <<actual_year, actual_month, 1>>)
        row == grid_row(offset_days, first_wday)
        key3 == <<base_year, base_month, dday>>
    IN [date |-> d, day |-> dday, wday |-> wday, row |-> row,
        x |-> day_x + wday * col_interval,
        y |-> day_y + row * row_interval,
        color |-> _get_day_color(wday, key3, actual_year, actual_month, mini),
        holiday |-> IF ~mini /\ key3 \in DOMAIN holiday_dict
                    THEN holiday_dict[key3] ELSE <<>>]

_get_mini_calendar(base_year, base_month, month_text_pos, day_start_pos, col_interval, row_interval) ==
    LET actual == _interpret_month13(base_year, base_month)
        actual_year == actual[1]
        actual_month == actual[2]
        mini_days == month_days(actual_year, actual_month)
    IN [label |-> actual_month,
        label_x |-> month_text_pos[1], label_y |-> month_text_pos[2],
        cells |-> [i \in 1..Len(mini_days) |->
                     day_cell(mini_days[i], base_year, base_month, actual_year,
                              actual_month, day_start_pos[1], day_start_pos[2],
                              col_interval, row_interval, TRUE)]]

_generate_calendar_svg(month) ==
    LET actual == _interpret_month13(year, month)
        actual_year == actual[1]
        actual_month == actual[2]
        yymm == IF month = 13 THEN Fmt02d((year + 1) % 100) \o <<Zero, Zero + 1>>
                ELSE Fmt02d(year % 100) \o Fmt02d(month)
        jpg_filename == yymm \o <<46, 106, 112, 103>>
        main_days == month_days(actual_year, actual_month)
        prev == _get_prev_month(year, month)
        next == _get_next_month(year, month)
    IN [image |-> jpg_filename,
        month_text |-> month,
        dayofweek |-> [i \in 1..7 |->
                         [x |-> MAIN_DAYOFWEEK_X + (i - 1) * MAIN_COL_INTERVAL_X,
                          color |-> _get_day_of_week_color(i - 1),
                          label |-> DAY_OF_WEEK_LABELS[i]]],
        main |-> [i \in 1..Len(main_days) |->
                    day_cell(main_days[i], year, month, actual_year, actual_month,
                             MAIN_DAY_X, MAIN_DAY_Y, MAIN_COL_INTERVAL_X,
                             MAIN_ROW_INTERVAL_Y, FALSE)],
        prev |-> _get_mini_calendar(prev[1], prev[2],
                     <<PREV_MONTH_X, PREV_MONTH_Y>>, <<PREV_DAY_X, PREV_DAY_Y>>,
                     PREV_COL_INTERVAL_X, PREV_ROW_INTERVAL_Y),
        next |-> _get_mini_calendar(next[1], next[2],
                     <<NEXT_MONTH_X, NEXT_MONTH_Y>>, <<NEXT_DAY_X, NEXT_DAY_Y>>,
                     NEXT_COL_INTERVAL_X, NEXT_ROW_INTERVAL_Y)]

\* one turn of the loop of save_calendar_svgs: the name of the file for m
svg_filename(m) ==
    LET yymm == IF m < 13 THEN Fmt02d(year % 100) \o Fmt02d(m)
                ELSE Fmt02d((year + 1) % 100) \o <<Zero, Zero + 1>>
    IN yymm \o <<46, 115, 118, 103>>

\* range(1, 13)
loop_months == [i \in 1..12 |-> i]

target_year == 2026

-----------------------------------------------------------------------------
(* The holiday source: what https://holidays-jp.github.io/api/v1/date.json  *)
(* may answer.  A body is the JSON object in its order, a sequence of       *)
(* <<date string, name>> with distinct date strings.                        *)

KenpoFurikae == <<25010, 27861, 32>> \o Furikae

\* "２０２６-05-+6": a key that is not YYYY-MM-DD and that int() still reads
\* as 6 May 2026 (fullwidth digits, a sign)
PlusSixth == <<65298, 65296, 65298, 65302, Dash, 48, 53, Dash, 43, 54>>

Entries ==
    { <<IsoDate(2026, 1, 1), Ganjitsu>>,
      <<IsoDate(2026, 1, 12), Furikae>>,
      <<IsoDate(2026, 5, 6), KenpoFurikae>>,
      <<IsoDate(2027, 1, 1), Ganjitsu>>,
      <<DecDigits(2026) \o <<Dash>> \o DecDigits(1231), Ganjitsu>>,
      <<PlusSixth, Ganjitsu>> }

RECURSIVE BodiesOfLen(_)
BodiesOfLen(n) ==
    IF n = 0 THEN {<<>>}
    ELSE { Append(b, e) : b \in BodiesOfLen(n - 1),
                          e \in { x \in Entries : TRUE } }

Bodies ==
    { b \in UNION { BodiesOfLen(n) : n \in 0..MaxPayload } :
        \A i, j \in 1..Len(b) : i # j => b[i][1] # b[j][1] }

Responses ==
    { [status |-> 200, parseable |-> TRUE, body |-> b] : b \in Bodies }
    \cup { [status |-> 404, parseable |-> FALSE, body |-> <<>>],
           [status |-> 500, parseable |-> TRUE, body |-> <<>>],
           [status |-> 300, parseable |-> TRUE, body |-> <<>>],
           [status |-> 200, parseable |-> FALSE, body |-> <<>>] }

NoCall == [fn |-> "none", args |-> <<>>]

-----------------------------------------------------------------------------
(* The run of the script: __main__ *)

Init ==
    /\ pc = "start"
    /\ year = 0
    /\ holiday_dict = EmptyDict
    /\ web \in Responses
    /\ fetches = 0
    /\ dir_exists \in BOOLEAN
    /\ dir_created = FALSE
    /\ files = EmptyDict
    /\ pages = 0
    /\ idx = 0
    /\ call = NoCall
    /\ ret = <<>>

\* CalendarSVGGenerator(y): __init__
construct(y) ==
    LET r == get_japanese_holidays_from_web(y)
    IN /\ year' = y
       /\ fetches' = fetches + 1
       /\ holiday_dict' = r.dict
       /\ pc' = IF r.err THEN "fetch_failed" ELSE "constructed"
       /\ UNCHANGED <<web, dir_exists, dir_created, files, pages, idx, call, ret>>

\* gen = CalendarSVGGenerator(target_year)
Construct ==
    /\ pc = "start"
    /\ construct(target_year)

\* save_calendar_svgs: the directory
MakeDir ==
    /\ pc = "constructed"
    /\ dir_exists' = TRUE
    /\ dir_created' = ~dir_exists
    /\ idx' = 1
    /\ pc' = "saving"
    /\ UNCHANGED <<year, holiday_dict, web, fetches, files, pages, call, ret>>

\* os.makedirs raises
MakeDirFails ==
    /\ pc = "constructed"
    /\ ~dir_exists
    /\ pc' = "io_failed"
    /\ UNCHANGED <<year, holiday_dict, web, fetches, dir_exists, dir_created,
                   files, pages, idx, call, ret>>

\* save_calendar_svgs: one turn of the loop
SaveMonth ==
    /\ pc = "saving"
    /\ idx <= Len(loop_months)
    /\ LET m == loop_months[idx]
       IN files' = put(files, svg_filename(m), _generate_calendar_svg(m))
    /\ pages' = pages + 1
    /\ idx' = idx + 1
    /\ UNCHANGED <<pc, year, holiday_dict, web, fetches, dir_exists, dir_created,
                   call, ret>>

\* one turn of the loop in which open() raises: the page was generated, no
\* file is made
SaveMonthOpenFails ==
    /\ pc = "saving"
    /\ idx <= Len(loop_months)
    /\ pages' = pages + 1
    /\ pc' = "io_failed"
    /\ UNCHANGED <<year, holiday_dict, web, fetches, dir_exists, dir_created,
                   files, idx, call, ret>>

\* what a write that raised left of the text in the file: nothing, or a
\* beginning of it
Kept == { "nothing", "beginning" }
cut(text, k) == [cut_of |-> text, kept |-> k]

\* one turn of the loop in which open() made the file and f.write(), or the
\* close that flushes it at the end of the with block, raises: the file of
\* the turn is left with what had reached it
SaveMonthWriteFails ==
    /\ pc = "saving"
    /\ idx <= Len(loop_months)
    /\ \E k \in Kept :
          LET m == loop_months[idx]
          IN files' = put(files, svg_filename(m), cut(_generate_calendar_svg(m), k))
    /\ pages' = pages + 1
    /\ pc' = "io_failed"
    /\ UNCHANGED <<year, holiday_dict, web, fetches, dir_exists, dir_created,
                   idx, call, ret>>

\* one turn of the loop in which the file was written and closed and print()
\* raises: the file of the turn is whole, the loop ends there
SaveMonthPrintFails ==
    /\ pc = "saving"
    /\ idx <= Len(loop_months)
    /\ LET m == loop_months[idx]
       IN files' = put(files, svg_filename(m), _generate_calendar_svg(m))
    /\ pages' = pages + 1
    /\ pc' = "io_failed"
    /\ UNCHANGED <<year, holiday_dict, web, fetches, dir_exists, dir_created,
                   idx, call, ret>>

\* the loop is over, the script ends
Finish ==
    /\ pc = "saving"
    /\ idx > Len(loop_months)
    /\ pc' = "done"
    /\ UNCHANGED <<year, holiday_dict, web, fetches, dir_exists, dir_created,
                   files, pages, idx, call, ret>>

Next ==
    \/ Construct
    \/ MakeDir
    \/ MakeDirFails
    \/ SaveMonth
    \/ SaveMonthOpenFails
    \/ SaveMonthWriteFails
    \/ SaveMonthPrintFails
    \/ Finish

Spec == Init /\ [][Next]_vars

-----------------------------------------------------------------------------
(* The functions and methods called one at a time: the module's functions   *)
(* before a generator exists, the methods on a generator of any year.       *)

returns(fn, args, v) ==
    /\ call' = [fn |-> fn, args |-> args]
    /\ ret' = v
    /\ UNCHANGED <<pc, year, holiday_dict, web, fetches, dir_exists, dir_created,
                   files, pages, idx>>

Idle(at) == pc = at /\ call = NoCall

\* the years a method is called with: the generator's and its neighbours
NearYears == (year - 1)..(year + 1)

InitCalls ==
    /\ Init
    /\ dir_exists = TRUE

\* the module's functions, called from a script that does nothing else
Call_find_second_monday ==
    /\ Idle("start")
    /\ \E y \in Years, m \in 1..12 :
          /\ call' = [fn |-> "find_second_monday", args |-> <<y, m>>]
          /\ ret' = find_second_monday(y, m)
          /\ pc' = "returned"
          /\ UNCHANGED <<year, holiday_dict, web, fetches, dir_exists,
                         dir_created, files, pages, idx>>

Call_get_japanese_holidays_from_web ==
    /\ Idle("start")
    /\ \E y \in Years :
          /\ call' = [fn |-> "get_japanese_holidays_from_web", args |-> <<y>>]
          /\ ret' = get_japanese_holidays_from_web(y)
          /\ fetches' = fetches + 1
          /\ pc' = "returned"
          /\ UNCHANGED <<year, holiday_dict, web, dir_exists, dir_created,
                         files, pages, idx>>

New ==
    /\ Idle("start")
    /\ \E y \in Years : construct(y)

Call_interpret_month13 ==
    /\ Idle("constructed")
    /\ \E y \in NearYears, m \in 1..13 :
          returns("_interpret_month13", <<y, m>>, _interpret_month13(y, m))

\* the result interpreted once more
Call_interpret_month13_again ==
    /\ pc = "constructed"
    /\ call.fn = "_interpret_month13"
    /\ returns("_interpret_month13 twice", call.args,
               _interpret_month13(ret[1], ret[2]))

Call_get_prev_month ==
    /\ Idle("constructed")
    /\ \E y \in NearYears, m \in 1..13 :
          returns("_get_prev_month", <<y, m>>, _get_prev_month(y, m))

Call_get_next_month ==
    /\ Idle("constructed")
    /\ \E y \in NearYears, m \in 1..13 :
          returns("_get_next_month", <<y, m>>, _get_next_month(y, m))

\* _get_prev_month of what _get_next_month returned
Call_get_prev_of_next ==
    /\ pc = "constructed"
    /\ call.fn = "_get_next_month"
    /\ returns("_get_prev_month of _get_next_month", call.args,
               _get_prev_month(ret[1], ret[2]))

\* keys of the year's pages: the holidays and some ordinary days
SomeKeys ==
    DOMAIN holiday_dict
    \cup { <<year, 1, 2>>, <<year, 5, 6>>, <<year, 13, 2>> }

Call_get_day_color ==
    /\ Idle("constructed")
    /\ \E w \in 0..6, k \in SomeKeys, mini \in BOOLEAN :
          LET a == _interpret_month13(k[1], k[2])
          IN returns("_get_day_color", <<w, k, mini>>,
                     _get_day_color(w, k, a[1], a[2], mini))

Call_generate_calendar_svg ==
    /\ Idle("constructed")
    /\ \E m \in 1..13 :
          /\ returns("_generate_calendar_svg", <<m>>, _generate_calendar_svg(m))

Return ==
    /\ pc = "constructed"
    /\ call # NoCall
    /\ call' = NoCall
    /\ ret' = <<>>
    /\ UNCHANGED <<pc, year, holiday_dict, web, fetches, dir_exists, dir_created,
                   files, pages, idx>>

NextCalls ==
    \/ Call_find_second_monday
    \/ Call_get_japanese_holidays_from_web
    \/ New
    \/ Call_interpret_month13
    \/ Call_interpret_month13_again
    \/ Call_get_prev_month
    \/ Call_get_next_month
    \/ Call_get_prev_of_next
    \/ Call_get_day_color
    \/ Call_generate_calendar_svg
    \/ Return

SpecCalls == InitCalls /\ [][NextCalls]_vars

-----------------------------------------------------------------------------
(* What the properties are stated with: the Gregorian calendar and the      *)
(* naming of pages, written down apart from the program's own arithmetic.   *)

\* the real month a logical month stands for
RealMonth(y, m) == IF m = 13 THEN <<y + 1, 1>> ELSE <<y, m>>

\* the real months before and after a real month
RealBefore(r) == IF r[2] = 1 THEN <<r[1] - 1, 12>> ELSE <<r[1], r[2] - 1>>
RealAfter(r) == IF r[2] = 12 THEN <<r[1] + 1, 1>> ELSE <<r[1], r[2] + 1>>

GregorianLength(y, m) ==
    CASE m \in {1, 3, 5, 7, 8, 10, 12} -> 31
      [] m \in {4, 6, 9, 11} -> 30
      [] m = 2 -> IF (y % 4 = 0 /\ y % 100 # 0) \/ y % 400 = 0 THEN 29 ELSE 28

\* day of the week by the table method: 0 = Sunday ... 6 = Saturday
MonthKey == <<0, 3, 2, 5, 0, 3, 5, 1, 4, 6, 2, 4>>
DayOfWeek(dt) ==
    LET y == IF dt[2] < 3 THEN dt[1] - 1 ELSE dt[1]
    IN (y + y \div 4 - y \div 100 + y \div 400 + MonthKey[dt[2]] + dt[3]) % 7

IsSunday(dt) == DayOfWeek(dt) = 0
IsSaturday(dt) == DayOfWeek(dt) = 6
IsMonday(dt) == DayOfWeek(dt) = 1

\* "YYMM" of a real month
YYMM(r) ==
    <<Zero + ((r[1] % 100) \div 10), Zero + (r[1] % 10),
      Zero + (r[2] \div 10), Zero + (r[2] % 10)>>

Jpg == <<46, 106, 112, 103>>
Svg == <<46, 115, 118, 103>>

\* the state right after a call of fn
Returned(fn) == call.fn = fn

\* the three grids of a generated page with the real month each one shows
\* and the place of its first column
GridsOf(page, y, m) ==
    LET r == RealMonth(y, m)
    IN { [cells |-> page.main, real |-> r,
          x0 |-> MAIN_DAY_X, dx |-> MAIN_COL_INTERVAL_X],
         [cells |-> page.prev.cells, real |-> RealBefore(r),
          x0 |-> PREV_DAY_X, dx |-> PREV_COL_INTERVAL_X],
         [cells |-> page.next.cells, real |-> RealAfter(r),
          x0 |-> NEXT_DAY_X, dx |-> NEXT_COL_INTERVAL_X] }

-----------------------------------------------------------------------------
(* C1 *)

\* C1 as stated: for every year y and every logical month m in 1..13,
\* _get_prev_month(_get_next_month(y, m)) is (y, m) again.
C1_RoundTrip ==
    Returned("_get_prev_month of _get_next_month") => ret = call.args

\* C1, amended: for every year y the round trip gives (y, m) back for m in
\* 1..12; for m = 13 it gives (y + 1, 1), the real month that (y, 13) stands
\* for, and not (y, 13).
C1_RoundTripUpTo12 ==
    Returned("_get_prev_month of _get_next_month") =>
        IF call.args[2] \in 1..12
        THEN ret = call.args
        ELSE /\ ret = <<call.args[1] + 1, 1>>
             /\ ret # call.args
             /\ ret = RealMonth(call.args[1], call.args[2])

C1_Witness ==
    /\ Returned("_get_prev_month of _get_next_month")
    /\ call.args = <<2026, 12>>
    /\ ret = <<2026, 12>>

-----------------------------------------------------------------------------
(* C2 *)

\* the dates the holiday source may name, and the name each name is stored as
SourceDates == { <<2026, 1, 1>>, <<2026, 1, 12>>, <<2026, 5, 6>>, <<2027, 1, 1>> }
StoredName(n) == IF n \in {Furikae, KenpoFurikae} THEN Furikae ELSE n

\* every key of the body is the YYYY-MM-DD of a date (months 1..12)
IsoBody ==
    \A i \in 1..Len(web.body) :
        \E t \in SourceDates : web.body[i][1] = IsoDate(t[1], t[2], t[3])

\* the second Monday of January of year y
SecondMondayOfJanuary(y) ==
    CHOOSE d \in 1..31 :
        /\ IsMonday(<<y, 1, d>>)
        /\ Cardinality({ e \in 1..(d - 1) : IsMonday(<<y, 1, e>>) }) = 1

\* C2: for a payload of YYYY-MM-DD keys (months 1..12) and any base_year,
\* get_japanese_holidays_from_web(base_year) returns exactly one entry
\* (y, m, d) for each payload entry of base_year, its name replaced by the
\* substitute-holiday string when it contains it and unchanged otherwise,
\* plus (base_year, 13, 1) -> New Year's Day and (base_year, 13, second
\* Monday of January of base_year + 1) -> Coming of Age Day; no entry of
\* another year appears and no other key has month 13.
C2_HolidayMap ==
    (Returned("get_japanese_holidays_from_web") /\ ~ret.err /\ IsoBody) =>
        LET base == call.args[1]
            d == ret.dict
            body == web.body
            sm == SecondMondayOfJanuary(base + 1)
            named == { t \in SourceDates :
                         \E i \in 1..Len(body) : body[i][1] = IsoDate(t[1], t[2], t[3]) }
        IN /\ DOMAIN d = { t \in named : t[1] = base }
                         \cup { <<base, 13, 1>>, <<base, 13, sm>> }
           /\ \A i \in 1..Len(body), t \in SourceDates :
                 (body[i][1] = IsoDate(t[1], t[2], t[3]) /\ t[1] = base)
                     => d[t] = StoredName(body[i][2])
           /\ \A t \in named : t[1] # base => t \notin DOMAIN d
           /\ d[<<base, 13, 1>>] = Ganjitsu
           /\ d[<<base, 13, sm>>] = SeijinNoHi
           /\ { k \in DOMAIN d : k[2] = 13 } = { <<base, 13, 1>>, <<base, 13, sm>> }
           /\ Cardinality({ k \in DOMAIN d : k[2] = 13 }) = 2

C2_Witness ==
    /\ Returned("get_japanese_holidays_from_web")
    /\ call.args = <<2026>>
    /\ web.body = << <<IsoDate(2026, 5, 6), KenpoFurikae>>,
                     <<IsoDate(2027, 1, 1), Ganjitsu>> >>
    /\ ~ret.err
    /\ ret.dict[<<2026, 5, 6>>] = Furikae
    /\ <<2027, 1, 1>> \notin DOMAIN ret.dict
    /\ ret.dict[<<2026, 13, 11>>] = SeijinNoHi

-----------------------------------------------------------------------------
(* C3 *)

\* C3: in the main grid and in both preview grids of a page of any logical
\* month 1..13, the days are exactly 1..N of the real month shown, N its
\* Gregorian length, each once and in ascending order; no date of an
\* adjacent month is among them.
C3_DaysOfMonth ==
    Returned("_generate_calendar_svg") =>
        \A g \in GridsOf(ret, year, call.args[1]) :
            /\ Len(g.cells) = GregorianLength(g.real[1], g.real[2])
            /\ \A i \in 1..Len(g.cells) :
                  /\ g.cells[i].day = i
                  /\ g.cells[i].date = <<g.real[1], g.real[2], i>>

C3_Witness ==
    /\ Returned("_generate_calendar_svg")
    /\ year = 2023
    /\ call.args = <<13>>
    /\ Len(ret.main) = 31
    /\ ret.main[31].date = <<2024, 1, 31>>
    /\ Len(ret.next.cells) = 29
    /\ Len(ret.prev.cells) = 31

-----------------------------------------------------------------------------
(* C4 *)

\* C4: _get_day_color gives orangered for a logical key (year, month incl.
\* 13, day) of the holiday map, for every weekday index and both values of
\* mini; otherwise orangered for index 0, royalblue for index 6, and for
\* 1..5 darkslategray when mini and black when not.
C4_ColorPriority ==
    Returned("_get_day_color") =>
        LET w == call.args[1]
            k == call.args[2]
            mini == call.args[3]
        IN ret = IF k \in DOMAIN holiday_dict THEN "orangered"
                 ELSE CASE w = 0 -> "orangered"
                        [] w = 6 -> "royalblue"
                        [] w \in 1..5 -> IF mini THEN "darkslategray" ELSE "black"

C4_Witness ==
    /\ Returned("_get_day_color")
    /\ call.args[2] = <<year, 13, 1>>
    /\ call.args[2] \in DOMAIN holiday_dict
    /\ call.args[1] = 6
    /\ call.args[3] = TRUE
    /\ ret = "orangered"

-----------------------------------------------------------------------------
(* C5 *)

\* C5: _interpret_month13(y, 13) = (y + 1, 1) and _interpret_month13(y, m) =
\* (y, m) for m in 1..12, whatever the generator's state, and applying it to
\* its own result changes nothing.
C5_Interpret ==
    /\ Returned("_interpret_month13") =>
          /\ call.args[2] = 13 => ret = <<call.args[1] + 1, 1>>
          /\ call.args[2] \in 1..12 => ret = call.args
    /\ Returned("_interpret_month13 twice") =>
          /\ call.args[2] = 13 => ret = <<call.args[1] + 1, 1>>
          /\ call.args[2] \in 1..12 => ret = call.args

C5_Witness ==
    /\ Returned("_interpret_month13 twice")
    /\ call.args = <<2026, 13>>
    /\ ret = <<2027, 1>>

-----------------------------------------------------------------------------
(* C6 *)

\* C6: find_second_monday(year, month) is the day of the second Monday of
\* the month, whatever the weekday of the 1st: a Monday, in 8..14, with
\* exactly one Monday before it in the month; for January 2027, whose 1st is
\* a Friday, it is 11.
C6_SecondMonday ==
    Returned("find_second_monday") =>
        LET y == call.args[1]
            m == call.args[2]
        IN /\ ret \in 8..14
           /\ IsMonday(<<y, m, ret>>)
           /\ Cardinality({ e \in 1..(ret - 1) : IsMonday(<<y, m, e>>) }) = 1
           /\ ret <= GregorianLength(y, m)
           /\ (y = 2027 /\ m = 1) => (ret = 11 /\ DayOfWeek(<<2027, 1, 1>>) = 5)

C6_Witness ==
    /\ Returned("find_second_monday")
    /\ call.args = <<2027, 1>>
    /\ ret = 11

-----------------------------------------------------------------------------
(* C7 *)

\* C7: for every logical month m in 1..13 of the target year the run
\* produces the page of m as the file YYMM.svg, with the image reference
\* YYMM.jpg, YY and MM of the real month that m stands for; for month 13 of
\* 2026 that is 2701.svg with 2701.jpg.
C7_PageNames ==
    pc = "done" =>
        \A m \in 1..13 :
            LET name == YYMM(RealMonth(year, m))
            IN /\ (name \o Svg) \in DOMAIN files
               /\ files[name \o Svg].month_text = m
               /\ files[name \o Svg].image = name \o Jpg

-----------------------------------------------------------------------------
(* C8 *)

\* the state of a run whose fetch was taken as failed: stopped, nothing made
AbortedEmpty ==
    /\ pc = "fetch_failed"
    /\ pages = 0
    /\ DOMAIN files = {}
    /\ ~dir_created
    /\ ~ENABLED Next

\* C8 as stated: the holiday fetch happens exactly once per run and before
\* any page is generated or any file is written; when it fails (status not
\* 2xx, or a payload that cannot be parsed) the run stops there: no page
\* generated, no directory created, no file written.
C8_FetchFirst ==
    /\ fetches = (IF pc = "start" THEN 0 ELSE 1)
    /\ (pages > 0 \/ DOMAIN files # {} \/ dir_created) =>
          (fetches = 1 /\ web.status \in 200..299 /\ web.parseable)
    /\ (pc # "start" /\ (web.status \notin 200..299 \/ ~web.parseable))
          => AbortedEmpty
    /\ pc = "fetch_failed" => AbortedEmpty

-----------------------------------------------------------------------------
(* C9 *)

\* C9: in every day cell of a main or preview grid the weekday index is 0
\* exactly when the date is a Sunday and 6 exactly when it is a Saturday,
\* and the cell's x is the start of the grid plus index times the column
\* interval.
C9_WeekdayIndex ==
    Returned("_generate_calendar_svg") =>
        \A g \in GridsOf(ret, year, call.args[1]) :
            \A i \in 1..Len(g.cells) :
                LET c == g.cells[i]
                IN /\ c.wday \in 0..6
                   /\ c.wday = 0 <=> IsSunday(c.date)
                   /\ c.wday = 6 <=> IsSaturday(c.date)
                   /\ c.wday = DayOfWeek(c.date)
                   /\ c.x = g.x0 + c.wday * g.dx

C9_Witness ==
    /\ Returned("_generate_calendar_svg")
    /\ year = 2026
    /\ call.args = <<13>>
    /\ ret.main[3].date = <<2027, 1, 3>>
    /\ ret.main[3].wday = 0
    /\ ret.main[3].x = 84
    /\ ret.main[2].wday = 6
    /\ ret.main[2].x = 252
    /\ ret.next.cells[6].wday = 6
    /\ ret.next.cells[6].x = 66

-----------------------------------------------------------------------------
(* C10 *)

\* C10: in every month grid no two days share a (row, column); day 1 is in
\* row 0; every row is in 0..5; from one day to the next the row stays,
\* except that it grows by exactly 1 when, and only when, the column wraps
\* from 6 to 0.
C10_GridShape ==
    Returned("_generate_calendar_svg") =>
        \A g \in GridsOf(ret, year, call.args[1]) :
            LET cs == g.cells
            IN /\ \A i, j \in 1..Len(cs) :
                     i # j => <<cs[i].row, cs[i].wday>> # <<cs[j].row, cs[j].wday>>
               /\ cs[1].row = 0
               /\ \A i \in 1..Len(cs) : cs[i].row \in 0..5
               /\ \A i \in 1..(Len(cs) - 1) :
                     LET wraps == cs[i].wday = 6 /\ cs[i + 1].wday = 0
                     IN /\ cs[i + 1].wday = (cs[i].wday + 1) % 7
                        /\ cs[i + 1].row = cs[i].row + (IF wraps THEN 1 ELSE 0)

C10_Witness ==
    /\ Returned("_generate_calendar_svg")
    /\ year = 2026
    /\ call.args = <<8>>
    /\ ret.main[1].wday = 6
    /\ ret.main[1].row = 0
    /\ ret.main[2].row = 1
    /\ ret.main[31].row = 5
    /\ ret.main[31].wday = 1

====
